---- MODULE Spec2Model ----
(***************************************************************************)
(* Model of the speech-presence detection and enhancement pipeline of      *)
(* backend/app/utils/audio_processor.py (class AudioPreprocessor) and of   *)
(* its caller, the transcribe endpoint.                                    *)
(*                                                                         *)
(* Units.  Floating-point quantities are kept as scaled integers so that   *)
(* every comparison of the code is exact:                                  *)
(*   duration            milliseconds            (0.2 s    = 200)          *)
(*   rms_energy          thousandths             (0.002    = 2)            *)
(*   zero_crossing_rate  hundredths              (0.02     = 2)            *)
(*   activity / voice    hundredths              (0.15     = 15)           *)
(*   spectral centroid   Hz                                                *)
(*   PCM samples         numerators over 128     (1.0      = 128)          *)
(* Python dicts are functions whose DOMAIN is the set of keys present.     *)
(***************************************************************************)
EXTENDS Integers, Sequences, FiniteSets, TLC

VARIABLES
    call,       \* a direct call of one pure function: [fn, arg, done, res]
    pc,         \* position of the request inside the endpoint / pipeline
    upload,     \* the uploaded file of the request
    audio,      \* (audio_data, sample_rate) as returned by _load_audio_file
    report,     \* analysis_results
    has_speech, \* verdict of _determine_speech_presence
    path,       \* processed_file_path
    pp_ret,     \* what preprocess_audio returned
    et_ret,     \* what enhanced_transcribe_audio returned
    response,   \* the endpoint's JSON response
    fs,         \* the files on disk: path -> content
    calls,      \* history: the stages invoked so far, in order
    log,        \* history: the warning/error records written so far
    thresholds, \* the attributes of the module-level AudioPreprocessor
    runs        \* the requests being served concurrently: run -> its locals

vars == <<call, pc, upload, audio, report, has_speech, path, pp_ret, et_ret,
          response, fs, calls, log, thresholds, runs>>

pipeVars == <<pc, upload, audio, report, has_speech, path, pp_ret, et_ret,
              response, fs, calls, log, runs>>

\* the locals of the one request that Spec follows
soloVars == <<call, pc, upload, audio, report, has_speech, path, pp_ret, et_ret,
              response, calls, log>>

----------------------------------------------------------------------------
(* Thresholds set by AudioPreprocessor.__init__ and the literal of line 344 *)

MIN_DURATION == 200

MIN_RMS_THRESHOLD == 2

MIN_SPECTRAL_CENTROID == 300

MAX_SPECTRAL_CENTROID == 4000

MIN_ACTIVITY_RATIO == 15

ZCR_MIN == 2

ZCR_MAX == 25

MIN_VOICE_RATIO == 10

\* lines 25-31: the attributes __init__ gives the preprocessor
InitThresholds ==
    [MIN_DURATION |-> MIN_DURATION,
     MIN_RMS_THRESHOLD |-> MIN_RMS_THRESHOLD,
     MIN_SPECTRAL_CENTROID |-> MIN_SPECTRAL_CENTROID,
     MAX_SPECTRAL_CENTROID |-> MAX_SPECTRAL_CENTROID,
     MIN_ACTIVITY_RATIO |-> MIN_ACTIVITY_RATIO,
     ZCR_MIN |-> ZCR_MIN,
     ZCR_MAX |-> ZCR_MAX]

----------------------------------------------------------------------------
(* Bounds of the model *)

\* how far around each hard threshold the sampled feature values extend
Spread == 1

Near(t) == (t - Spread)..(t + Spread)

\* bits of the significand of the floating-point format the samples are
\* computed in (float32 has 24; the model keeps the rounding, with fewer bits)
Precision == 5

----------------------------------------------------------------------------
(* Python dict helpers *)

EmptyDict == [k \in {} |-> 0]

\* dict.get(key, default)
Get(d, k, default) == IF k \in DOMAIN d THEN d[k] ELSE default

\* a dict with the one key k when the option o = {x}, the empty dict when o = {}
Field(k, o) == IF o = {} THEN EmptyDict ELSE k :> (CHOOSE x \in o : TRUE)

Opt(S) == {{}} \cup {{x} : x \in S}

----------------------------------------------------------------------------
(* _determine_speech_presence, audio_processor.py lines 295-354             *)
(* Every check of the try body is one step; a step answers "return_true",  *)
(* "return_false" or "continue" and the records it logs.  The thresholds   *)
(* are read from the preprocessor (self.MIN_DURATION and so on).           *)

StepResult(v, l) == [verdict |-> v, log |-> l]

\* lines 305-306: a report that carries an error tag is assumed to be speech
\* (variant: the error tag is not looked at)
step_error_ignored(r) == StepResult("continue", {})

step_error(r) ==
    IF "error" \in DOMAIN r
    THEN StepResult("return_true", {})
    ELSE StepResult("continue", {})

\* lines 309-311 (variant: the comparison is <=)
step_duration_nonstrict(r) ==
    IF Get(r, "duration", 0) <= thresholds.MIN_DURATION
    THEN StepResult("return_false", {"Audio too short"})
    ELSE StepResult("continue", {})

step_duration(r) ==
    IF Get(r, "duration", 0) < thresholds.MIN_DURATION
    THEN StepResult("return_false", {"Audio too short"})
    ELSE StepResult("continue", {})

\* lines 314-317
step_rms(r) ==
    IF Get(r, "rms_energy", 0) < thresholds.MIN_RMS_THRESHOLD
    THEN StepResult("return_false", {"RMS energy too low"})
    ELSE StepResult("continue", {})

\* lines 320-323: logged only, never a return
ZcrOutOfRange(r) ==
    LET zcr == Get(r, "zero_crossing_rate", 0)
    IN  zcr < thresholds.ZCR_MIN \/ zcr > thresholds.ZCR_MAX

\* (variant: an out-of-range rate returns False)
step_zcr_hard(r) ==
    IF ZcrOutOfRange(r)
    THEN StepResult("return_false", {"ZCR out of speech range"})
    ELSE StepResult("continue", {})

step_zcr(r) ==
    IF ZcrOutOfRange(r)
    THEN StepResult("continue", {"ZCR out of speech range"})
    ELSE StepResult("continue", {})

\* lines 326-332: logged only, and only when spectral_features is non-empty
CentroidOutOfRange(r) ==
    LET spectral_features == Get(r, "spectral_features", EmptyDict)
        spectral_centroid == Get(spectral_features, "spectral_centroid", 0)
    IN  /\ DOMAIN spectral_features # {}
        /\ \/ spectral_centroid < thresholds.MIN_SPECTRAL_CENTROID
           \/ spectral_centroid > thresholds.MAX_SPECTRAL_CENTROID

step_spectral(r) ==
    IF CentroidOutOfRange(r)
    THEN StepResult("continue", {"Spectral centroid out of speech range"})
    ELSE StepResult("continue", {})

\* lines 335-339
step_activity(r) ==
    LET temporal_features == Get(r, "temporal_features", EmptyDict)
        activity_ratio == Get(temporal_features, "activity_ratio", 0)
    IN  IF activity_ratio < thresholds.MIN_ACTIVITY_RATIO
        THEN StepResult("return_false", {"Activity ratio too low"})
        ELSE StepResult("continue", {})

\* lines 342-346
step_vad(r) ==
    LET vad_results == Get(r, "vad_results", EmptyDict)
        voice_ratio == Get(vad_results, "voice_ratio", 0)
    IN  IF voice_ratio < MIN_VOICE_RATIO
        THEN StepResult("return_false", {"Voice ratio too low"})
        ELSE StepResult("continue", {})

\* the order in which the try body runs its checks
DecisionSteps == <<"error", "duration", "rms", "zcr", "spectral", "activity", "vad">>

Step(name, r) ==
    CASE name = "error"    -> step_error(r)
      [] name = "duration" -> step_duration(r)
      [] name = "rms"      -> step_rms(r)
      [] name = "zcr"      -> step_zcr(r)
      [] name = "spectral" -> step_spectral(r)
      [] name = "activity" -> step_activity(r)
      [] name = "vad"      -> step_vad(r)

\* where an unexpected exception may be raised inside the try body
DecisionFaults == {"none"} \cup {DecisionSteps[i] : i \in 1..Len(DecisionSteps)}

Outcome(raised, ret, l) == [raised |-> raised, ret |-> ret, log |-> l]

\* lines 304-350: the try body from step i on; fault names the step that
\* raises (if it is reached)
RECURSIVE determine_try(_, _, _, _)
determine_try(r, fault, i, l) ==
    IF i > Len(DecisionSteps)
    THEN Outcome(FALSE, TRUE, l)
    ELSE IF fault = DecisionSteps[i]
    THEN Outcome(TRUE, FALSE, l)
    ELSE LET s == Step(DecisionSteps[i], r)
         IN  CASE s.verdict = "return_true"  -> Outcome(FALSE, TRUE, l \cup s.log)
               [] s.verdict = "return_false" -> Outcome(FALSE, FALSE, l \cup s.log)
               [] s.verdict = "continue"     ->
                      determine_try(r, fault, i + 1, l \cup s.log)

\* lines 352-354: the handler of the try (variant: the exception is re-raised)
determine_except_reraise(t) == t

determine_except(t) ==
    Outcome(FALSE, TRUE, t.log \cup {"Speech determination failed"})

determine_speech_presence(r, fault) ==
    LET t == determine_try(r, fault, 1, {})
    IN  IF t.raised THEN determine_except(t) ELSE t

\* lines 304-354: what a call leaves in the two objects it is given.  The body
\* only reads them (analysis.get, self.MIN_...): it assigns to no attribute
\* of self and to no key of analysis.  (variant: the call tags the report)
determine_leaves_tagged(self, analysis) ==
    [self |-> self, analysis |-> ("error" :> "seen") @@ analysis]

determine_leaves(self, analysis) == [self |-> self, analysis |-> analysis]

----------------------------------------------------------------------------
(* The upload and the file it holds                                         *)

\* file_handler.py line 17
ALLOWED_AUDIO_EXTENSIONS == {".mp3", ".mp4", ".wav", ".m4a", ".ogg", ".flac", ".webm"}

\* file_handler.py line 22
MAX_FILE_SIZE_BYTES == 10 * 1024 * 1024

UPLOAD_PATH == "upload.tmp"

ENHANCED_PATH == "enhanced.wav"

\* sample rates of the clips; 160 Hz is the rate whose Nyquist frequency is 80 Hz
SampleRates == {160, 1000}

\* sample counts: none, the count that lasts MIN_DURATION and one less
SampleCounts(sr) ==
    {0} \cup {(sr * MIN_DURATION) \div 1000 - d : d \in {0, 1}}

\* what the two decoders make of the file's content
\*   decodable: librosa.load succeeds
\*   pcm8/pcm16/pcm24: librosa.load fails, wave.open succeeds, sample width 1/2/3
\*   corrupt: both fail (an empty file is one)
Upload(hf, ext, sk, size, kind, n, sr) ==
    [has_filename |-> hf, ext |-> ext, size_known |-> sk, size |-> size,
     kind |-> kind, n |-> n, sr |-> sr]

Uploads ==
    UNION {{Upload(TRUE, ".wav", TRUE, 1, "decodable", n, sr) :
                n \in SampleCounts(sr)} : sr \in SampleRates}
  \cup {Upload(TRUE, ".wav", TRUE, 1, k, n, 1000) : k \in {"pcm8", "pcm16"}, n \in {0, 1000}}
  \cup {Upload(TRUE, ".wav", TRUE, 1, k, 0, 0) : k \in {"pcm24", "corrupt"}}
  \cup {Upload(TRUE, ".wav", TRUE, 0, "corrupt", 0, 0)}
  \cup {Upload(TRUE, ".wav", TRUE, MAX_FILE_SIZE_BYTES, "decodable", 1000, 1000)}
  \cup {Upload(TRUE, ".wav", sk, MAX_FILE_SIZE_BYTES + 1, "corrupt", 0, 0) :
        sk \in BOOLEAN}
  \cup {Upload(FALSE, "", TRUE, 1, "corrupt", 0, 0),
        Upload(TRUE, "", TRUE, 1, "corrupt", 0, 0),
        Upload(TRUE, ".txt", TRUE, 1, "corrupt", 0, 0)}

----------------------------------------------------------------------------
(* FileHandler, file_handler.py                                             *)

\* validate_audio_file, lines 35-51: TRUE iff the upload is accepted
validate_audio_file(u) ==
    /\ u.has_filename
    /\ u.ext \in ALLOWED_AUDIO_EXTENSIONS
    /\ ~(u.size_known /\ u.size > 0 /\ u.size > MAX_FILE_SIZE_BYTES)

\* save_temporary_file, lines 83-88: the content read exceeds the limit
save_rejects(u) == u.size > MAX_FILE_SIZE_BYTES

\* cleanup_file, lines 119-127: the file is unlinked if it exists; when
\* os.unlink raises (unlink_fails) the failure is logged and the file stays
\* (variant: nothing is unlinked)
cleanup_file_keeps(files, file_path, unlink_fails) ==
    [fs |-> files, ret |-> FALSE, log |-> {}]

cleanup_file(files, file_path, unlink_fails) ==
    IF file_path # "" /\ file_path \in DOMAIN files
    THEN IF unlink_fails
         THEN [fs |-> files, ret |-> FALSE, log |-> {"Failed to delete temporary file"}]
         ELSE [fs |-> [q \in DOMAIN files \ {file_path} |-> files[q]],
               ret |-> TRUE, log |-> {}]
    ELSE [fs |-> files, ret |-> FALSE, log |-> {}]

\* where save_temporary_file may raise besides the size check: creating the
\* temporary file (line 77), reading or writing the content (lines 80, 90-91)
SaveFaults == {"none", "tempfile", "io"}

\* save_temporary_file, lines 71-106: the path of the file written, or the
\* status of the HTTPException raised after the file just created was
\* cleaned up (lines 96-106)
save_temporary_file(u, files, fault, unlink_fails) ==
    LET created == (UPLOAD_PATH :> "empty") @@ files
        cleaned == cleanup_file(created, UPLOAD_PATH, unlink_fails)
    IN  IF fault = "tempfile"
        THEN [raised |-> TRUE, status |-> 500, path |-> "", fs |-> files,
              log |-> {"Error saving temporary file"}]
        ELSE IF save_rejects(u)
        THEN [raised |-> TRUE, status |-> 413, path |-> "", fs |-> cleaned.fs,
              log |-> cleaned.log]
        ELSE IF fault = "io"
        THEN [raised |-> TRUE, status |-> 500, path |-> "", fs |-> cleaned.fs,
              log |-> cleaned.log \cup {"Error saving temporary file"}]
        ELSE [raised |-> FALSE, status |-> 0, path |-> UPLOAD_PATH,
              fs |-> (UPLOAD_PATH :> "upload") @@ files, log |-> {}]

----------------------------------------------------------------------------
(* _load_audio_file, audio_processor.py lines 76-115                        *)

NoAudio == [present |-> FALSE, n |-> 0, sr |-> 0]

Buffer(n, sr) == [present |-> TRUE, n |-> n, sr |-> sr]

load_audio_file(u) ==
    CASE u.kind = "decodable" ->             \* lines 89-91
            [audio |-> Buffer(u.n, u.sr), log |-> {}]
      [] u.kind \in {"pcm8", "pcm16"} ->      \* lines 92-105, 110-111
            [audio |-> Buffer(u.n, u.sr), log |-> {}]
      [] u.kind = "pcm24" ->                 \* lines 106-108
            [audio |-> NoAudio, log |-> {"Unsupported bit depth"}]
      [] u.kind = "corrupt" ->               \* lines 113-115
            [audio |-> NoAudio, log |-> {"Failed to load audio file"}]

\* lines 101-102: np.frombuffer(dtype=np.uint8), then (audio_array - 128) / 128.0.
\* The subtraction is done in uint8 (the array's dtype; 128 fits it), so it
\* wraps modulo 256 before the division.  The result is the numerator over 128.
pcm8_convert(s) == (s - 128) % 256

----------------------------------------------------------------------------
(* _analyze_audio_for_speech and its sub-analyses, lines 117-293            *)

\* the feature values an analysis may compute
AtThreshold(t) == {t - 1, t, t + 1}

RmsValues == Near(MIN_RMS_THRESHOLD)

ZcrValues == {ZCR_MIN - 1, ZCR_MIN, ZCR_MAX + 1}

CentroidValues == {MIN_SPECTRAL_CENTROID - 1, MAX_SPECTRAL_CENTROID}

ActivityValues == Near(MIN_ACTIVITY_RATIO)

VoiceValues == Near(MIN_VOICE_RATIO)

\* lines 175-206: the features, or {} when the extraction raised
extract_spectral_features(centroid, fault) ==
    IF fault
    THEN [value |-> EmptyDict, log |-> {"Spectral feature extraction failed"}]
    ELSE [value |-> [spectral_centroid |-> centroid], log |-> {}]

\* lines 219-247
analyze_temporal_characteristics(activity, fault) ==
    IF fault
    THEN [value |-> EmptyDict, log |-> {"Temporal analysis failed"}]
    ELSE [value |-> [activity_ratio |-> activity], log |-> {}]

\* lines 260-293
voice_activity_detection(voice, fault) ==
    IF fault
    THEN [value |-> EmptyDict, log |-> {"VAD failed"}]
    ELSE [value |-> [voice_ratio |-> voice], log |-> {}]

\* line 129: duration = len(audio_data) / sample_rate, in whole milliseconds
\* (the floor keeps every comparison with a whole number of milliseconds)
duration_ms(a) == (a.n * 1000) \div a.sr

\* lines 128-162.  f names the faults: f.top is an exception raised by the
\* top-level computation; np.max of an empty array (line 133) and a division
\* by a zero sample rate (line 129) always raise.
analyze_audio_for_speech(a, rms, zcr, centroid, activity, voice, f) ==
    IF f.top \/ a.n = 0 \/ a.sr = 0
    THEN [value |-> [error |-> "analysis"], log |-> {"Audio analysis failed"}]
    ELSE LET sp == extract_spectral_features(centroid, f.spectral)
             tm == analyze_temporal_characteristics(activity, f.temporal)
             vd == voice_activity_detection(voice, f.vad)
         IN  [value |-> [duration |-> duration_ms(a),
                         rms_energy |-> rms,
                         zero_crossing_rate |-> zcr,
                         spectral_features |-> sp.value,
                         temporal_features |-> tm.value,
                         vad_results |-> vd.value],
              log |-> sp.log \cup tm.log \cup vd.log]

AnalysisFaults == [top : BOOLEAN, spectral : BOOLEAN, temporal : BOOLEAN, vad : BOOLEAN]

----------------------------------------------------------------------------
(* _enhance_audio_quality, lines 356-401                                    *)

Without(f, p) == [q \in DOMAIN f \ {p} |-> f[q]]

\* where an exception may be raised inside the try body: before the temporary
\* file is created (lines 370-381) or after it (lines 388-394)
EnhanceFaults == {"none", "before_tempfile", "after_tempfile"}

\* lines 368-397.  np.max of an empty array (line 373) always raises.
\* temp_file_path is the name NamedTemporaryFile picked (lines 384-385),
\* written what wave.open writes to it (lines 390-394).
enhance_try_at(a, files, fault, temp_file_path, written) ==
    IF fault = "before_tempfile" \/ a.n = 0
    THEN [raised |-> TRUE, path |-> "", fs |-> files]
    ELSE IF fault = "after_tempfile"
    THEN [raised |-> TRUE, path |-> "", fs |-> (temp_file_path :> "empty") @@ files]
    ELSE [raised |-> FALSE, path |-> temp_file_path,
          fs |-> (temp_file_path :> written) @@ files]

enhance_try(a, files, fault) ==
    enhance_try_at(a, files, fault, ENHANCED_PATH, "enhanced")

\* lines 399-401: the handler returns the path it was given (variant: it
\* returns the temporary path)
enhance_except_temp_path(original_file_path) == ENHANCED_PATH

enhance_except(original_file_path) == original_file_path

enhance_audio_quality_at(a, original_file_path, files, fault, temp_file_path, written) ==
    LET t == enhance_try_at(a, files, fault, temp_file_path, written)
    IN  IF t.raised
        THEN [path |-> enhance_except(original_file_path), fs |-> t.fs,
              log |-> {"Audio enhancement failed"}]
        ELSE [path |-> t.path, fs |-> t.fs, log |-> {}]

enhance_audio_quality(a, original_file_path, files, fault) ==
    LET t == enhance_try(a, files, fault)
    IN  IF t.raised
        THEN [path |-> enhance_except(original_file_path), fs |-> t.fs,
              log |-> {"Audio enhancement failed"}]
        ELSE [path |-> t.path, fs |-> t.fs, log |-> {}]

----------------------------------------------------------------------------
(* Peak normalisation, lines 370-374, in binary floating point.  A sample   *)
(* is the integer n that stands for n / One; the representable values have *)
(* a significand of Precision bits, and every operation rounds its exact   *)
(* result to the nearest representable value, ties to even.                *)

\* the integer that stands for 1.0: the unit is the spacing of the binade
\* [1/8, 1/4)
One == 2 ^ (Precision + 2)

Abs(n) == IF n < 0 THEN 0 - n ELSE n

\* spacing of the representable values around num / den >= 0
RECURSIVE UlpOf(_, _, _)
UlpOf(num, den, u) ==
    IF num < den * u * (2 ^ Precision) THEN u ELSE UlpOf(num, den, 2 * u)

\* num / den >= 0 to the nearest integer, ties to even
RoundHalfEven(num, den) ==
    LET n == num \div den
        r == num - n * den
    IN  IF 2 * r > den \/ (2 * r = den /\ n % 2 = 1) THEN n + 1 ELSE n

\* the representable value nearest to num / den (den > 0)
Round(num, den) ==
    LET a == Abs(num)
        u == UlpOf(a, den, 1)
        m == u * RoundHalfEven(a, den * u)
    IN  IF num < 0 THEN 0 - m ELSE m

\* x / y and x * y of two representable values
fdiv(x, y) == Round(x * One, y)

fmul(x, y) == Round(x * y, One)

\* the literal 0.95
PEAK == Round(95 * One, 100)

\* line 373: np.max(np.abs(enhanced_audio))  (variant: np.max without abs)
peak_without_abs(x) ==
    CHOOSE m \in {x[i] : i \in DOMAIN x} : \A i \in DOMAIN x : x[i] <= m

peak(x) ==
    CHOOSE m \in {Abs(x[i]) : i \in DOMAIN x} : \A i \in DOMAIN x : Abs(x[i]) <= m

\* lines 373-374
normalize(x) ==
    IF peak(x) > 0
    THEN [i \in DOMAIN x |-> fmul(fdiv(x[i], peak(x)), PEAK)]
    ELSE x

\* line 378
HIGH_CUTOFF == 80

\* lines 377-379: high_cutoff < sample_rate / 2  (variant: <=)
applies_filter_at_nyquist(sample_rate) == 2 * HIGH_CUTOFF <= sample_rate

applies_filter(sample_rate) == 2 * HIGH_CUTOFF < sample_rate

\* lines 370-381: the signal after normalisation and filtering.  The output
\* of scipy's Butterworth filter is not computed: sosfilt tells whether the
\* signal went through it, samples are the samples it was given.
enhanced_audio(audio_data, sample_rate) ==
    [sosfilt |-> applies_filter(sample_rate), samples |-> normalize(audio_data)]

\* line 388 for one sample: the rounded product with 32767, then
\* astype(np.int16) drops the fraction
to_int16(v) ==
    LET w == Round(v * 32767, 1)
    IN  IF w < 0 THEN 0 - ((0 - w) \div One) ELSE w \div One

\* lines 368-397 on the samples: np.max of an empty buffer raises (line
\* 373); otherwise the content of the wave file written by lines 390-394
enhanced_wav(audio_data, sample_rate) ==
    IF audio_data = <<>>
    THEN [raised |-> TRUE]
    ELSE LET e == enhanced_audio(audio_data, sample_rate)
         IN  [raised |-> FALSE, nchannels |-> 1, sampwidth |-> 2,
              framerate |-> sample_rate, sosfilt |-> e.sosfilt,
              frames |-> [k \in DOMAIN e.samples |-> to_int16(e.samples[k])]]

----------------------------------------------------------------------------
(* preprocess_audio, lines 34-74                                            *)

Triple(p, hs, r) == [returned |-> TRUE, path |-> p, has_speech |-> hs, report |-> r]

NoTriple == [returned |-> FALSE, path |-> "", has_speech |-> FALSE, report |-> EmptyDict]

\* lines 51-52: the stage that follows the load (variant: no check for None)
after_load_always_analyze(a) == "analyze"

after_load(a) == IF ~a.present THEN "return" ELSE "analyze"

\* lines 61-65: the stage that follows the decision (variant: no check of
\* has_speech)
after_decide_always_enhance(hs) == "enhance"

after_decide(hs) == IF hs THEN "enhance" ELSE "pp_return"

\* lines 72-74: the fallback of the whole function
preprocess_except(file_path) == Triple(file_path, TRUE, [error |-> "preprocess"])

\* line 70: the normal return (variant: the input path is returned)
preprocess_return_original(processed_file_path, file_path, hs, r) ==
    Triple(file_path, hs, r)

preprocess_return(processed_file_path, file_path, hs, r) ==
    Triple(processed_file_path, hs, r)

----------------------------------------------------------------------------
(* Python str methods, on strings                                           *)

IsSpace(c) == c \in {" ", "\t", "\n"}

Last(s) == SubSeq(s, Len(s), Len(s))

RECURSIVE lstrip(_)
lstrip(s) == IF s # "" /\ IsSpace(Head(s)) THEN lstrip(Tail(s)) ELSE s

RECURSIVE rstrip(_)
rstrip(s) ==
    IF s # "" /\ IsSpace(Last(s)) THEN rstrip(SubSeq(s, 1, Len(s) - 1)) ELSE s

\* str.strip()
strip(s) == rstrip(lstrip(s))

StartsWith(s, w) == Len(w) <= Len(s) /\ SubSeq(s, 1, Len(w)) = w

\* str.replace(old, new): every occurrence of old, found from the left and
\* not overlapping, becomes new (old is not empty)
RECURSIVE replace(_, _, _)
replace(s, old, new) ==
    IF s = "" THEN ""
    ELSE IF StartsWith(s, old)
    THEN new \o replace(SubSeq(s, Len(old) + 1, Len(s)), old, new)
    ELSE Head(s) \o replace(Tail(s), old, new)

\* str.split(sep): the pieces between the occurrences of sep, as a sequence;
\* piece is the piece being read
RECURSIVE split_from(_, _, _)
split_from(s, sep, piece) ==
    IF s = "" THEN <<piece>>
    ELSE IF StartsWith(s, sep)
    THEN <<piece>> \o split_from(SubSeq(s, Len(sep) + 1, Len(s)), sep, "")
    ELSE split_from(Tail(s), sep, piece \o Head(s))

split(s, sep) == split_from(s, sep, "")

\* sep.join(parts)
RECURSIVE join(_, _)
join(parts, sep) ==
    IF parts = <<>> THEN ""
    ELSE IF Len(parts) = 1 THEN parts[1]
    ELSE parts[1] \o sep \o join(Tail(parts), sep)

LowerCase == "abcdefghijklmnopqrstuvwxyz"

UpperCase == "ABCDEFGHIJKLMNOPQRSTUVWXYZ"

\* the letter at the place that c has in the alphabet from, taken from the
\* alphabet to; any other character is kept
Recase(c, from, to) ==
    IF \E k \in 1..Len(from) : SubSeq(from, k, k) = c
    THEN LET k == CHOOSE k \in 1..Len(from) : SubSeq(from, k, k) = c
         IN  SubSeq(to, k, k)
    ELSE c

\* str.lower()
RECURSIVE lower(_)
lower(s) ==
    IF s = "" THEN "" ELSE Recase(Head(s), UpperCase, LowerCase) \o lower(Tail(s))

\* str.capitalize(): the first character in upper case, all the others in
\* lower case  (variant: the others are kept as they are)
capitalize_first_only(s) ==
    IF s = "" THEN "" ELSE Recase(Head(s), LowerCase, UpperCase) \o Tail(s)

capitalize(s) ==
    IF s = "" THEN "" ELSE Recase(Head(s), LowerCase, UpperCase) \o lower(Tail(s))

----------------------------------------------------------------------------
(* postprocess_transcription, audio_processor.py lines 420-471              *)

\* lines 439-455, in the order of the dict
Replacements ==
    << <<"pie torch", "PyTorch">>, <<"tensorflow", "TensorFlow">>,
       <<"fast API", "FastAPI">>, <<"pie audio", "PyAudio">>,
       <<"num pie", "NumPy">>, <<"pandas", "pandas">>,
       <<"jupiter", "Jupyter">>, <<"get hub", "GitHub">>,
       <<"VS code", "VS Code">>, <<"docker", "Docker">>,
       <<"there", "their">>, <<"its", "it's">> >>

\* lines 458-459: the replacements from the k-th on
RECURSIVE apply_replacements(_, _)
apply_replacements(processed_text, k) ==
    IF k > Len(Replacements) THEN processed_text
    ELSE apply_replacements(
             replace(processed_text, Replacements[k][1], Replacements[k][2]), k + 1)

\* line 463
processed_sentence(sentence) ==
    IF sentence # "" THEN capitalize(strip(sentence)) ELSE sentence

\* lines 436-464
postprocess_try(transcription) ==
    LET sentences == split(apply_replacements(strip(transcription), 1), ". ")
    IN  join([k \in 1..Len(sentences) |-> processed_sentence(sentences[k])], ". ")

\* lines 431-471; raises is an exception inside the try body
postprocess_transcription_or(transcription, raises) ==
    IF raises THEN transcription          \* lines 469-471
    ELSE IF transcription = "" THEN transcription   \* lines 432-433
    ELSE postprocess_try(transcription)

----------------------------------------------------------------------------
(* _voice_activity_detection, audio_processor.py lines 249-293.  Samples    *)
(* are integers; a zero-crossing rate is kept as its count of sign changes, *)
(* the rates of one array having one denominator; a percentile is kept in   *)
(* hundredths.                                                              *)

\* lines 262-263
frame_length(sample_rate) == (2 * sample_rate) \div 100

hop_length(sample_rate) == sample_rate \div 100

\* librosa.util.frame(x, frame_length, hop_length, axis=0) on a 1-d array:
\* an array of shape (n_frames, frame_length), row k being the k-th frame
n_frames(x, fl, hop) == 1 + (Len(x) - fl) \div hop

frame(x, fl, hop) ==
    [k \in 1..n_frames(x, fl, hop) |-> [j \in 1..fl |-> x[(k - 1) * hop + j]]]

\* the exceptions of librosa.util.frame
frame_raises(x, fl, hop) == Len(x) < fl \/ hop < 1

\* m.T of a 2-d array given as the sequence of its rows
Transpose(m) ==
    IF m = <<>> THEN <<>>
    ELSE [j \in 1..Len(m[1]) |-> [k \in 1..Len(m) |-> m[k][j]]]

RECURSIVE Sum(_)
Sum(v) == IF v = <<>> THEN 0 ELSE Head(v) + Sum(Tail(v))

\* np.sum(m**2, axis=1): one sum for each row
SumSquaresOfRows(m) ==
    [k \in 1..Len(m) |-> Sum([j \in 1..Len(m[k]) |-> m[k][j] * m[k][j]])]

\* np.sum(m**2, axis=0): one sum for each column  (line 269)
SumSquaresAxis0(m) == SumSquaresOfRows(Transpose(m))

Sign(v) == IF v > 0 THEN 1 ELSE IF v < 0 THEN 0 - 1 ELSE 0

\* np.sum(np.diff(np.sign(frame)) != 0)
SignChanges(v) ==
    Cardinality({k \in 1..(Len(v) - 1) : Sign(v[k]) # Sign(v[k + 1])})

\* lines 270-271: one count for each row of the array given
ZcrsOfRows(m) == [k \in 1..Len(m) |-> SignChanges(m[k])]

\* 100 * np.percentile(a, q), linear interpolation between the two order
\* statistics around the position q / 100 * (len(a) - 1)
Percentile(a, q) ==
    LET s == SortSeq(a, LAMBDA u, v : u < v)
        pos == q * (Len(a) - 1)
        lo == pos \div 100 + 1
        hi == IF lo < Len(a) THEN lo + 1 ELSE lo
    IN  100 * s[lo] + (pos % 100) * (s[hi] - s[lo])

\* lines 274-289 on the two feature arrays
vad_result(frame_energies, frame_zcrs) ==
    LET energy_threshold == Percentile(frame_energies, 35)
        zcr_min == Percentile(frame_zcrs, 20)
        zcr_max == Percentile(frame_zcrs, 80)
        voice_frames == {k \in 1..Len(frame_energies) :
                            /\ 100 * frame_energies[k] > energy_threshold
                            /\ 100 * frame_zcrs[k] > zcr_min
                            /\ 100 * frame_zcrs[k] < zcr_max}
    IN  [voice_ratio |-> (100 * Cardinality(voice_frames)) \div Len(frame_energies),
         voice_frames |-> Cardinality(voice_frames),
         total_frames |-> Len(frame_energies),
         energy_threshold |-> energy_threshold]

\* lines 260-293  (variant: the features of the rows, the frames)
voice_activity_detection_by_frame(audio_data, sample_rate) ==
    LET fl == frame_length(sample_rate)
        hop == hop_length(sample_rate)
        frames == frame(audio_data, fl, hop)
    IN  IF frame_raises(audio_data, fl, hop) THEN EmptyDict
        ELSE vad_result(SumSquaresOfRows(frames), ZcrsOfRows(frames))

\* frames has one row for each frame, so the sum over axis 0 has one entry
\* for each place in a frame, and frames.T one row for each place
voice_activity_detection_of(audio_data, sample_rate) ==
    LET fl == frame_length(sample_rate)
        hop == hop_length(sample_rate)
        frames == frame(audio_data, fl, hop)
    IN  IF frame_raises(audio_data, fl, hop) THEN EmptyDict     \* lines 291-293
        ELSE vad_result(SumSquaresAxis0(frames), ZcrsOfRows(Transpose(frames)))

\* _analyze_temporal_characteristics, lines 219-247: 25 ms frames every
\* 10 ms, framed and summed as in the detection above; the activity ratio is
\* in hundredths.  onset_rate (lines 235-236) feeds no decision and is left
\* out.
temporal_result(frame_energies) ==
    LET active_frames == {k \in 1..Len(frame_energies) :
                            100 * frame_energies[k] > Percentile(frame_energies, 30)}
    IN  [activity_ratio |-> (100 * Cardinality(active_frames)) \div Len(frame_energies),
         active_frames |-> Cardinality(active_frames),
         total_frames |-> Len(frame_energies)]

\* line 221
temporal_frame_length(sample_rate) == (25 * sample_rate) \div 1000

analyze_temporal_characteristics_of(audio_data, sample_rate) ==
    LET fl == temporal_frame_length(sample_rate)
        hop == hop_length(sample_rate)
    IN  IF frame_raises(audio_data, fl, hop) THEN EmptyDict     \* lines 245-247
        ELSE temporal_result(SumSquaresAxis0(frame(audio_data, fl, hop)))

----------------------------------------------------------------------------
(* The feedback endpoint: analyze_speech (feedback.py lines 13-56) and      *)
(* SpeechTherapyService.get_speech_feedback (speech_service.py lines 40-71) *)

\* what the chat completion of lines 52-66 does: it raises, or it answers
\* with a message whose content is a text or None
LlmOutcomes ==
    {[kind |-> "raise", content |-> ""], [kind |-> "none", content |-> ""]}
      \cup {[kind |-> "content", content |-> c] :
               c \in {"", "Well done!", " Try: I am happy. \n"}}

\* speech_service.py lines 69-71: the failure is logged and raised as an
\* HTTPException with status 500 (variant: it is swallowed, '' is returned)
speech_feedback_except_swallowed(llm) == [raised |-> FALSE, status |-> 0, ret |-> ""]

speech_feedback_except(llm) == [raised |-> TRUE, status |-> 500, ret |-> ""]

\* speech_service.py lines 50-71; None has no strip(): line 68 raises
get_speech_feedback(transcribed_text, llm) ==
    IF llm.kind = "content"
    THEN [raised |-> FALSE, status |-> 0, ret |-> strip(llm.content)]
    ELSE speech_feedback_except(llm)

\* feedback.py lines 27-49: the JSON body of the answer, or the HTTPException
\* of the service raised again (FastAPI answers it with a detail body)
analyze_speech(transcription, llm) ==
    LET feedback == get_speech_feedback(transcription, llm)
    IN  IF feedback.raised
        THEN [status |-> feedback.status,
              body |-> [detail |-> "Feedback generation failed"]]
        ELSE [status |-> 200,
              body |-> [success |-> TRUE,
                        transcription |-> transcription,
                        feedback |-> feedback.ret]]

----------------------------------------------------------------------------
(* The request: transcribe_audio_chunk (transcribe.py lines 19-72) running  *)
(* temporary_file_context, enhanced_transcribe_audio and preprocess_audio.  *)
(* pc is the position of the one request the model follows.                 *)

\* the records written by logger.warning and logger.error; log keeps these
\* (the logger.info records of a run are not followed)
ErrorRecords ==
    {"Unsupported bit depth", "Failed to load audio file", "Audio analysis failed",
     "Spectral feature extraction failed", "Temporal analysis failed", "VAD failed",
     "Speech determination failed", "Audio enhancement failed",
     "Audio preprocessing failed", "Enhanced transcription failed",
     "Error during enhanced transcription", "Failed to delete temporary file",
     "Error saving temporary file"}

\* an entry of the history calls: the operation invoked and the path given to it
Invoked(op, arg) == [op |-> op, arg |-> arg]

NoCall == [fn |-> "none", arg |-> 0, done |-> FALSE, res |-> 0]

NoResult == [returned |-> FALSE, transcription |-> "", report |-> EmptyDict]

NoResponse == [sent |-> FALSE, status |-> 0, success |-> FALSE, transcription |-> ""]

Response(success, text) ==
    [sent |-> TRUE, status |-> 200, success |-> success, transcription |-> text]

InitPipeline(u) ==
    /\ upload = u
    /\ audio = NoAudio
    /\ report = EmptyDict
    /\ has_speech = FALSE
    /\ path = ""
    /\ pp_ret = NoTriple
    /\ et_ret = NoResult
    /\ response = NoResponse
    /\ fs = EmptyDict
    /\ calls = <<>>
    /\ log = {}
    /\ thresholds = InitThresholds

Init ==
    /\ call = NoCall
    /\ pc = "request"
    /\ runs = <<>>
    /\ \E u \in Uploads : InitPipeline(u)

\* file_handler.py lines 146-151, transcribe.py lines 56-72: validation fails,
\* temporary_file_context raises 400 before any file exists (temp_path is
\* None in the finally step) and the endpoint's handler answers.
RejectUpload ==
    /\ pc = "request"
    /\ ~validate_audio_file(upload)
    /\ response' = Response(FALSE, "")
    /\ log' = log \cup {"Error during enhanced transcription"}
    /\ pc' = "responded"
    /\ UNCHANGED <<runs, thresholds, call, upload, audio, report, has_speech, path, pp_ret, et_ret,
                   fs, calls>>

\* file_handler.py lines 153-155: the upload is written to a temporary file
\* which is yielded to the body; when save_temporary_file raises, temp_path
\* stays None and the endpoint's handler answers (transcribe.py lines 56-72)
SaveUpload ==
    /\ pc = "request"
    /\ validate_audio_file(upload)
    /\ \E fault \in SaveFaults, unlink_fails \in BOOLEAN :
         LET saved == save_temporary_file(upload, fs, fault, unlink_fails)
         IN  /\ fs' = saved.fs
             /\ IF saved.raised
                THEN /\ response' = Response(FALSE, "")
                     /\ log' = log \cup saved.log
                                    \cup {"Error during enhanced transcription"}
                     /\ pc' = "responded"
                ELSE /\ response' = response
                     /\ log' = log
                     /\ pc' = "preprocess"
    /\ UNCHANGED <<runs, thresholds, call, upload, audio, report, has_speech, path, pp_ret, et_ret,
                   calls>>

\* audio_processor.py lines 45-52: load, and return at once when nothing was
\* loaded; raised is an exception of the try body before the load (line 46)
Load ==
    /\ pc = "preprocess"
    /\ \E raised \in BOOLEAN :
         IF raised
         THEN /\ pp_ret' = preprocess_except(UPLOAD_PATH)
              /\ log' = log \cup {"Audio preprocessing failed"}
              /\ pc' = "et_check"
              /\ UNCHANGED <<audio, calls>>
         ELSE LET l == load_audio_file(upload)
              IN  /\ audio' = l.audio
                  /\ calls' = Append(calls, Invoked("load", UPLOAD_PATH))
                  /\ log' = log \cup l.log
                  /\ IF after_load(l.audio) = "return"
                     THEN /\ pp_ret' = Triple(UPLOAD_PATH, FALSE,
                                              [error |-> "Failed to load audio"])
                          /\ pc' = "et_check"
                     ELSE /\ pp_ret' = pp_ret
                          /\ pc' = "analyze"
    /\ UNCHANGED <<runs, thresholds, call, upload, report, has_speech, path, et_ret, response, fs>>

\* line 55
Analyze ==
    /\ pc = "analyze"
    /\ \E rms \in AtThreshold(MIN_RMS_THRESHOLD), zcr \in ZcrValues,
          centroid \in CentroidValues, activity \in AtThreshold(MIN_ACTIVITY_RATIO),
          voice \in AtThreshold(MIN_VOICE_RATIO), f \in AnalysisFaults :
         LET a == analyze_audio_for_speech(audio, rms, zcr, centroid, activity, voice, f)
         IN  /\ report' = a.value
             /\ log' = log \cup a.log
    /\ calls' = Append(calls, Invoked("analyze", ""))
    /\ pc' = "decide"
    /\ UNCHANGED <<runs, thresholds, call, upload, audio, has_speech, path, pp_ret, et_ret, response, fs>>

\* lines 58, 61-62; an exception that left _determine_speech_presence would
\* reach the handler of lines 72-74
Decide ==
    /\ pc = "decide"
    /\ \E fault \in DecisionFaults :
         LET d == determine_speech_presence(report, fault)
             w == determine_leaves(thresholds, report)
         IN  /\ calls' = Append(calls, Invoked("decide", ""))
             /\ report' = w.analysis
             /\ thresholds' = w.self
             /\ IF d.raised
                THEN /\ pp_ret' = preprocess_except(UPLOAD_PATH)
                     /\ log' = log \cup (d.log \cap ErrorRecords)
                                    \cup {"Audio preprocessing failed"}
                     /\ pc' = "et_check"
                     /\ UNCHANGED <<has_speech, path>>
                ELSE /\ has_speech' = d.ret
                     /\ log' = log \cup (d.log \cap ErrorRecords)
                     /\ path' = UPLOAD_PATH
                     /\ pc' = after_decide(d.ret)
                     /\ UNCHANGED pp_ret
    /\ UNCHANGED <<runs, call, upload, audio, et_ret, response, fs>>

\* lines 63-65
Enhance ==
    /\ pc = "enhance"
    /\ \E fault \in EnhanceFaults :
         LET e == enhance_audio_quality(audio, UPLOAD_PATH, fs, fault)
         IN  /\ path' = e.path
             /\ fs' = e.fs
             /\ log' = log \cup e.log
    /\ calls' = Append(calls, Invoked("enhance", UPLOAD_PATH))
    /\ pc' = "pp_return"
    /\ UNCHANGED <<runs, thresholds, call, upload, audio, report, has_speech, pp_ret, et_ret, response>>

\* lines 67-74: the two log lines and the return; raised is an exception of
\* the try body at the log lines
PreprocessReturn ==
    /\ pc = "pp_return"
    /\ \E raised \in BOOLEAN :
         IF raised
         THEN /\ pp_ret' = preprocess_except(UPLOAD_PATH)
              /\ log' = log \cup {"Audio preprocessing failed"}
         ELSE /\ pp_ret' = preprocess_return(path, UPLOAD_PATH, has_speech, report)
              /\ log' = log
    /\ pc' = "et_check"
    /\ UNCHANGED <<runs, thresholds, call, upload, audio, report, has_speech, path, et_ret, response,
                   fs, calls>>

----------------------------------------------------------------------------
(* enhanced_transcribe_audio, lines 473-521, and the endpoint's answer      *)

\* settings.transcription_model: the two values the code handles, and any other
TranscriptionModels == {"whisper", "gemini", "other"}

\* speech_service.py lines 9-71: the methods that SpeechTherapyService
\* defines, the attributes that speech_service (line 74) has
SpeechServiceOps == {"transcribe_audio", "get_speech_feedback"}

\* what the transcription operation of speech_service produces
CollaboratorOutcomes == {"", "hello there", "raise"}

\* line 507: the call with the text of the collaborator; no statement of
\* lines 431-467 raises for a str
postprocess_transcription(t) == postprocess_transcription_or(t, FALSE)

Result(text, r) == [returned |-> TRUE, transcription |-> text, report |-> r]

\* line 490: if not has_speech  (variant: the verdict is not looked at)
skip_transcription_never(hs) == FALSE

skip_transcription(hs) == ~hs

\* lines 519-521
transcribe_except == Result("", [error |-> "transcription"])

\* lines 490-492: no speech, no transcription
EtSkip ==
    /\ pc = "et_check"
    /\ skip_transcription(pp_ret.has_speech)
    /\ et_ret' = Result("", pp_ret.report)
    /\ pc' = "respond"
    /\ UNCHANGED <<runs, thresholds, call, upload, audio, report, has_speech, path, pp_ret, response,
                   fs, calls, log>>

\* lines 494-504: the call of the collaborator, up to its await; with a model
\* name that is neither handled, line 507 reads an unbound local and raises
EtTranscribe ==
    /\ pc = "et_check"
    /\ ~skip_transcription(pp_ret.has_speech)
    /\ \E model \in TranscriptionModels :
         IF model \in {"whisper", "gemini"}
         THEN /\ calls' = Append(calls, Invoked("transcribe_audio_" \o model, pp_ret.path))
              /\ pc' = "await"
              /\ UNCHANGED <<et_ret, log>>
         ELSE /\ et_ret' = transcribe_except
              /\ log' = log \cup {"Enhanced transcription failed"}
              /\ pc' = "respond"
              /\ UNCHANGED calls
    /\ UNCHANGED <<runs, thresholds, call, upload, audio, report, has_speech, path, pp_ret, response, fs>>

\* lines 507-521: the collaborator answered or raised; unlink_fails is the
\* os.unlink of line 512 raising (swallowed by lines 513-514)
EtResume ==
    /\ pc = "await"
    /\ \E outcome \in CollaboratorOutcomes, unlink_fails \in BOOLEAN :
         IF outcome = "raise"
         THEN /\ et_ret' = transcribe_except
              /\ log' = log \cup {"Enhanced transcription failed"}
              /\ fs' = fs
         ELSE /\ et_ret' = Result(postprocess_transcription(outcome), pp_ret.report)
              /\ log' = log
              /\ fs' = IF /\ pp_ret.path # UPLOAD_PATH
                          /\ pp_ret.path \in DOMAIN fs
                          /\ ~unlink_fails
                       THEN Without(fs, pp_ret.path)
                       ELSE fs
    /\ pc' = "respond"
    /\ UNCHANGED <<runs, thresholds, call, upload, audio, report, has_speech, path, pp_ret, response,
                   calls>>

\* transcribe.py lines 43-54, then the finally step of
\* temporary_file_context, file_handler.py lines 157-160
Respond ==
    /\ pc = "respond"
    /\ response' = Response(TRUE, et_ret.transcription)
    /\ \E unlink_fails \in BOOLEAN :
         LET cleaned == cleanup_file(fs, UPLOAD_PATH, unlink_fails)
         IN  /\ fs' = cleaned.fs
             /\ log' = log \cup cleaned.log
    /\ pc' = "responded"
    /\ UNCHANGED <<runs, thresholds, call, upload, audio, report, has_speech, path, pp_ret, et_ret,
                   calls>>

Next ==
    \/ RejectUpload
    \/ SaveUpload
    \/ Load
    \/ Analyze
    \/ Decide
    \/ Enhance
    \/ PreprocessReturn
    \/ EtSkip
    \/ EtTranscribe
    \/ EtResume
    \/ Respond

Spec == Init /\ [][Next]_vars

----------------------------------------------------------------------------
(* Concurrent requests.  transcribe_audio_chunk is a coroutine: a request   *)
(* runs without interruption from one await to the next, and requests      *)
(* interleave at the awaits: file.read() (file_handler.py line 80) and the  *)
(* transcription call (audio_processor.py lines 497, 502).  The requests    *)
(* share the files on disk and the module-level audio_preprocessor.         *)

\* number of requests in flight
NumRuns == 2

Runs == 1..NumRuns

\* the names tempfile may give out; each request creates at most two files
TempName(k) == "tmp" \o ToString(k)

TempNames == {TempName(k) : k \in 1..(2 * NumRuns)}

\* tempfile.NamedTemporaryFile opens its file with O_EXCL: the name it picks
\* is the name of no existing file (variant: any name).  Names matter only
\* by being equal or different, so the choice is among the first two free
\* names, which includes a name that a deleted file had.
tempfile_names_any(files) == TempNames

tempfile_names(files) ==
    {TempName(k) : k \in {n \in 1..(2 * NumRuns) :
        /\ TempName(n) \notin DOMAIN files
        /\ Cardinality({m \in 1..(n - 1) : TempName(m) \notin DOMAIN files}) < 2}}

Clip(name, u, rms, activity, fault, text) ==
    [name |-> name, upload |-> u, rms |-> rms, activity |-> activity,
     enhance_fault |-> fault, text |-> text]

ValidWav == Upload(TRUE, ".wav", TRUE, 1, "decodable", 1000, 1000)

\* the clips: what is uploaded, what the analysis measures on it, whether its
\* enhancement fails, and the words spoken in it
ClipList ==
    <<Clip("speech", ValidWav, MIN_RMS_THRESHOLD, MIN_ACTIVITY_RATIO, "none",
          "hello there"),
     Clip("talk", ValidWav, MIN_RMS_THRESHOLD + 1, MIN_ACTIVITY_RATIO, "none",
          "its docker"),
     Clip("unenhanced", ValidWav, MIN_RMS_THRESHOLD, MIN_ACTIVITY_RATIO + 1,
          "before_tempfile", "get hub"),
     Clip("silence", ValidWav, MIN_RMS_THRESHOLD - 1, 0, "none", ""),
     Clip("corrupt", Upload(TRUE, ".wav", TRUE, 1, "corrupt", 0, 0), 0, 0, "none", ""),
     Clip("large", Upload(TRUE, ".wav", FALSE, MAX_FILE_SIZE_BYTES + 1, "corrupt", 0, 0),
          0, 0, "none", ""),
     Clip("note", Upload(TRUE, ".txt", TRUE, 1, "corrupt", 0, 0), 0, 0, "none", "")>>

Clips == {ClipList[k] : k \in DOMAIN ClipList}

\* the content of a file: empty, or the upload or the enhanced audio of a clip
Content(kind, c) == kind \o ":" \o c.name

\* the clip a decoder finds in a file; an empty file holds none
ClipOf(content) ==
    IF \E c \in Clips : content \in {Content("upload", c), Content("enhanced", c)}
    THEN CHOOSE c \in Clips : content \in {Content("upload", c), Content("enhanced", c)}
    ELSE Clip("", Upload(TRUE, ".wav", TRUE, 0, "corrupt", 0, 0), 0, 0, "none", "")

NoFaults == [top |-> FALSE, spectral |-> FALSE, temporal |-> FALSE, vad |-> FALSE]

\* preprocess_audio, lines 45-70, on the file at file_path; temp_file_path is
\* the name the enhancement would get for its file
preprocess_audio_at(file_path, files, temp_file_path, self) ==
    LET c == ClipOf(files[file_path])
        l == load_audio_file(c.upload)
        a == analyze_audio_for_speech(l.audio, c.rms, ZCR_MIN, MIN_SPECTRAL_CENTROID,
                                      c.activity, MIN_VOICE_RATIO, NoFaults)
        d == determine_speech_presence(a.value, "none")
        w == determine_leaves(self, a.value)
        e == enhance_audio_quality_at(l.audio, file_path, files, c.enhance_fault,
                                      temp_file_path, Content("enhanced", c))
    IN  IF after_load(l.audio) = "return"
        THEN [triple |-> Triple(file_path, FALSE, [error |-> "Failed to load audio"]),
              fs |-> files, self |-> self]
        ELSE IF after_decide(d.ret) = "enhance"
        THEN [triple |-> preprocess_return(e.path, file_path, d.ret, w.analysis),
              fs |-> e.fs, self |-> w.self]
        ELSE [triple |-> preprocess_return(file_path, file_path, d.ret, w.analysis),
              fs |-> files, self |-> w.self]

\* the transcription operation of speech_service, given a path: it reads the
\* file and returns the words spoken in it, or raises when there is no such
\* file or no audio in it
transcribe_audio_at(files, audio_file_path) ==
    IF audio_file_path \in DOMAIN files /\ ClipOf(files[audio_file_path]).name # ""
    THEN [raised |-> FALSE, text |-> ClipOf(files[audio_file_path]).text]
    ELSE [raised |-> TRUE, text |-> ""]

\* enhanced_transcribe_audio from the return of the transcription on (lines
\* 507-521), the endpoint's answer (transcribe.py lines 43-54) and the
\* finally step of temporary_file_context (file_handler.py lines 157-160)
resume_at(files, triple, file_path) ==
    LET heard == transcribe_audio_at(files, triple.path)
        unlinked == IF triple.path # file_path
                    THEN cleanup_file(files, triple.path, FALSE).fs
                    ELSE files
    IN  IF heard.raised
        THEN [response |-> Response(TRUE, ""),
              fs |-> cleanup_file(files, file_path, FALSE).fs]
        ELSE [response |-> Response(TRUE, postprocess_transcription(heard.text)),
              fs |-> cleanup_file(unlinked, file_path, FALSE).fs]

\* the request for clip c when it is the only one: whether the clip is
\* analysed, what preprocess_audio returns and what the endpoint answers
Alone(c) ==
    LET pp == preprocess_audio_at("upload", "upload" :> Content("upload", c),
                                  "enhanced", InitThresholds)
    IN  IF ~validate_audio_file(c.upload) \/ save_rejects(c.upload)
        THEN [analysed |-> FALSE, pp |-> NoTriple, response |-> Response(FALSE, "")]
        ELSE IF skip_transcription(pp.triple.has_speech)
        THEN [analysed |-> TRUE, pp |-> pp.triple, response |-> Response(TRUE, "")]
        ELSE [analysed |-> TRUE, pp |-> pp.triple,
              response |-> resume_at(pp.fs, pp.triple, "upload").response]

\* a request: its position, its clip, the name of its temporary file, the
\* return of preprocess_audio, its answer, and for reference what the
\* request gives alone
Run(c) ==
    [pc |-> "request", clip |-> c, temp_path |-> "", pp |-> NoTriple,
     response |-> NoResponse, alone |-> Alone(c)]

\* the requests carry different clips; requests are alike, so they are
\* numbered in the order of their clips
InitConc ==
    /\ call = NoCall
    /\ pc = "idle"
    /\ InitPipeline(ValidWav)
    /\ runs \in {[i \in Runs |-> Run(ClipList[f[i]])] :
                    f \in {g \in [Runs -> DOMAIN ClipList] :
                              \A i, j \in Runs : i < j => g[i] < g[j]}}

\* file_handler.py lines 146-151 and 71-80: validation, then the temporary
\* file is created and the request waits for the content of the upload
CStart(i) ==
    /\ runs[i].pc = "request"
    /\ IF ~validate_audio_file(runs[i].clip.upload)
       THEN /\ runs' = [runs EXCEPT ![i].pc = "responded",
                                    ![i].response = Response(FALSE, "")]
            /\ fs' = fs
       ELSE \E name \in tempfile_names(fs) :
              /\ fs' = (name :> "empty") @@ fs
              /\ runs' = [runs EXCEPT ![i].pc = "read", ![i].temp_path = name]
    /\ UNCHANGED <<soloVars, thresholds>>

\* file_handler.py lines 83-94 and 155, audio_processor.py lines 486-504: the
\* content is checked and written, preprocess_audio runs, and the request
\* either answers (no speech) or waits for the transcription
CPreprocess(i) ==
    /\ runs[i].pc = "read"
    /\ LET r == runs[i]
           written == (r.temp_path :> Content("upload", r.clip)) @@ fs
       IN  IF save_rejects(r.clip.upload)
           THEN /\ fs' = cleanup_file(fs, r.temp_path, FALSE).fs
                /\ runs' = [runs EXCEPT ![i].pc = "responded",
                                        ![i].response = Response(FALSE, "")]
                /\ thresholds' = thresholds
           ELSE \E name \in tempfile_names(written) :
                  LET pp == preprocess_audio_at(r.temp_path, written, name, thresholds)
                  IN  /\ thresholds' = pp.self
                      /\ IF skip_transcription(pp.triple.has_speech)
                         THEN /\ fs' = cleanup_file(pp.fs, r.temp_path, FALSE).fs
                              /\ runs' = [runs EXCEPT ![i].pc = "responded",
                                                      ![i].pp = pp.triple,
                                                      ![i].response = Response(TRUE, "")]
                         ELSE /\ fs' = pp.fs
                              /\ runs' = [runs EXCEPT ![i].pc = "await",
                                                      ![i].pp = pp.triple]
    /\ UNCHANGED soloVars

\* audio_processor.py lines 507-521: the transcription has returned or raised
CResume(i) ==
    /\ runs[i].pc = "await"
    /\ LET done == resume_at(fs, runs[i].pp, runs[i].temp_path)
       IN  /\ fs' = done.fs
           /\ runs' = [runs EXCEPT ![i].pc = "responded",
                                   ![i].response = done.response]
    /\ UNCHANGED <<soloVars, thresholds>>

NextConc ==
    \E i \in Runs :
        \/ CStart(i)
        \/ CPreprocess(i)
        \/ CResume(i)

SpecConc == InitConc /\ [][NextConc]_vars

----------------------------------------------------------------------------
(* Direct calls of the pure functions: the inputs are drawn by InitUnit and *)
(* one action applies each function.                                        *)

\* every dict a caller may hand to _determine_speech_presence: each key
\* present or missing, each sub-dict missing, empty or filled
DecisionReports ==
    {Field("error", e) @@ Field("duration", d) @@ Field("rms_energy", rms)
       @@ Field("zero_crossing_rate", z) @@ Field("spectral_features", sp)
       @@ Field("temporal_features", tm) @@ Field("vad_results", vd) :
        e \in Opt({"analysis"}),
        d \in Opt(Near(MIN_DURATION)),
        rms \in Opt(RmsValues),
        z \in Opt(ZcrValues),
        sp \in Opt({Field("spectral_centroid", c) : c \in Opt(CentroidValues)}),
        tm \in Opt({Field("activity_ratio", a) : a \in Opt(ActivityValues)}),
        vd \in Opt({Field("voice_ratio", v) : v \in Opt(VoiceValues)})}

DetermineCalls(reports, faults) ==
    {[fn |-> "determine_speech_presence", arg |-> [report |-> r, fault |-> f],
      done |-> FALSE, res |-> 0] : r \in reports, f \in faults}

\* every 8-bit sample value
Pcm8Calls ==
    {[fn |-> "pcm8_convert", arg |-> s, done |-> FALSE, res |-> 0] : s \in 0..255}

\* the reports of the repeated call: each hard gate missing, just below or at
\* its threshold, with and without an error tag
PurityReports ==
    {Field("error", e) @@ Field("duration", d) @@ Field("rms_energy", rms)
       @@ Field("temporal_features", tm) @@ Field("vad_results", vd) :
        e \in Opt({"analysis"}),
        d \in Opt({MIN_DURATION - 1, MIN_DURATION}),
        rms \in Opt({MIN_RMS_THRESHOLD - 1, MIN_RMS_THRESHOLD}),
        tm \in Opt({Field("activity_ratio", a) :
                      a \in Opt({MIN_ACTIVITY_RATIO - 1, MIN_ACTIVITY_RATIO})}),
        vd \in Opt({Field("voice_ratio", v) :
                      v \in Opt({MIN_VOICE_RATIO - 1, MIN_VOICE_RATIO})})}

\* _determine_speech_presence called twice on one dict object: arg.report is
\* the dict as the caller built it, obj the dict object as it is now
DetermineTwiceCalls ==
    {[fn |-> "determine_twice", arg |-> [report |-> r, fault |-> f], obj |-> r,
      done |-> FALSE, res |-> <<>>] : r \in PurityReports, f \in DecisionFaults}

\* the samples of a loaded clip: 0 and every representable value of
\* magnitude 1/4 to 1
Samples ==
    {n \in (0 - One)..One :
        Round(n, 1) = n /\ (n = 0 \/ 4 * Abs(n) >= One)}

\* the normalisation applied to a buffer of two samples, then to its result
NormalizeCalls ==
    {[fn |-> "normalize", arg |-> <<a, b>>, done |-> FALSE, res |-> <<>>] :
        a \in Samples, b \in Samples}

\* the transcriptions of test/feedback.py and the collaborator's outcomes
FeedbackCalls ==
    {[fn |-> "analyze_speech", arg |-> [transcription |-> t, llm |-> o],
      done |-> FALSE, res |-> 0] :
        t \in {"", "   ", "Hello, how are you today?"}, o \in LlmOutcomes}

\* the texts handed to postprocess_transcription: up to three pieces, among
\* them words of the replacement list, capitals, blanks and sentence ends
TextPieces == {"pie torch", "docker", "there", "its", "VS code", "Hi", "ok", " ", ". "}

Texts ==
    {""} \cup TextPieces \cup {a \o b : a, b \in TextPieces}
         \cup {a \o b \o c : a, b, c \in TextPieces}

PostprocessCalls ==
    {[fn |-> "postprocess_transcription", arg |-> [transcription |-> t, raises |-> r],
      done |-> FALSE, res |-> 0] : t \in Texts, r \in BOOLEAN}

MaxSamples == 6

\* the buffers of up to MaxSamples samples, at the two lowest sample rates
\* with whole frame and hop lengths
VadBuffers ==
    UNION {[1..n -> {0 - 2, 0, 1}] : n \in 0..MaxSamples}

VadCalls ==
    {[fn |-> "voice_activity_detection", arg |-> [audio_data |-> x, sample_rate |-> sr],
      done |-> FALSE, res |-> 0] : x \in VadBuffers, sr \in {100, 200}}

TemporalCalls ==
    {[fn |-> "analyze_temporal_characteristics",
      arg |-> [audio_data |-> x, sample_rate |-> sr],
      done |-> FALSE, res |-> 0] : x \in VadBuffers, sr \in {100, 200}}

\* the sample rates around twice the cutoff and the usual one, and buffers
\* of no sample and of two samples
EnhanceCalls ==
    {[fn |-> "enhance_audio_quality", arg |-> [audio_data |-> x, sample_rate |-> sr],
      done |-> FALSE, res |-> 0] :
        x \in {<<>>} \cup {<<a, b>> : a \in Samples, b \in {0, 0 - One}},
        sr \in {159, 160, 161, 16000}}

IdleUpload == Upload(TRUE, ".wav", TRUE, 1, "decodable", 1000, 1000)

InitUnit ==
    /\ pc = "idle"
    /\ runs = <<>>
    /\ InitPipeline(IdleUpload)
    /\ \/ call \in DetermineCalls(DecisionReports, DecisionFaults)
       \/ call \in Pcm8Calls
       \/ call \in DetermineTwiceCalls
       \/ call \in NormalizeCalls
       \/ call \in FeedbackCalls
       \/ call \in PostprocessCalls
       \/ call \in VadCalls
       \/ call \in TemporalCalls
       \/ call \in EnhanceCalls

CallDetermine ==
    /\ call.fn = "determine_speech_presence"
    /\ ~call.done
    /\ call' = [call EXCEPT !.done = TRUE,
                            !.res = determine_speech_presence(call.arg.report,
                                                              call.arg.fault)]
    /\ UNCHANGED <<pipeVars, thresholds>>

CallPcm8 ==
    /\ call.fn = "pcm8_convert"
    /\ ~call.done
    /\ call' = [call EXCEPT !.done = TRUE, !.res = pcm8_convert(call.arg)]
    /\ UNCHANGED <<pipeVars, thresholds>>

\* one call of the two: it reads the dict object and the preprocessor as the
\* call before left them
CallDetermineTwice ==
    /\ call.fn = "determine_twice"
    /\ ~call.done
    /\ LET d == determine_speech_presence(call.obj, call.arg.fault)
           w == determine_leaves(thresholds, call.obj)
       IN  /\ call' = [call EXCEPT !.res = Append(call.res, d),
                                   !.obj = w.analysis,
                                   !.done = (Len(call.res) = 1)]
           /\ thresholds' = w.self
    /\ UNCHANGED pipeVars

\* the first pass normalises the buffer given, the second pass the result
\* of the first
CallNormalize ==
    /\ call.fn = "normalize"
    /\ ~call.done
    /\ LET x == IF call.res = <<>> THEN call.arg ELSE call.res[1]
       IN  call' = [call EXCEPT !.res = Append(call.res, normalize(x)),
                                !.done = (Len(call.res) = 1)]
    /\ UNCHANGED <<pipeVars, thresholds>>

\* one request to POST /speech-therapy/feedback
CallFeedback ==
    /\ call.fn = "analyze_speech"
    /\ ~call.done
    /\ call' = [call EXCEPT !.done = TRUE,
                            !.res = analyze_speech(call.arg.transcription,
                                                   call.arg.llm)]
    /\ UNCHANGED <<pipeVars, thresholds>>

CallPostprocess ==
    /\ call.fn = "postprocess_transcription"
    /\ ~call.done
    /\ call' = [call EXCEPT !.done = TRUE,
                            !.res = postprocess_transcription_or(call.arg.transcription,
                                                                 call.arg.raises)]
    /\ UNCHANGED <<pipeVars, thresholds>>

CallVad ==
    /\ call.fn = "voice_activity_detection"
    /\ ~call.done
    /\ call' = [call EXCEPT !.done = TRUE,
                            !.res = voice_activity_detection_of(call.arg.audio_data,
                                                                call.arg.sample_rate)]
    /\ UNCHANGED <<pipeVars, thresholds>>

CallTemporal ==
    /\ call.fn = "analyze_temporal_characteristics"
    /\ ~call.done
    /\ call' = [call EXCEPT !.done = TRUE,
                            !.res = analyze_temporal_characteristics_of(
                                        call.arg.audio_data, call.arg.sample_rate)]
    /\ UNCHANGED <<pipeVars, thresholds>>

CallEnhance ==
    /\ call.fn = "enhance_audio_quality"
    /\ ~call.done
    /\ call' = [call EXCEPT !.done = TRUE,
                            !.res = enhanced_wav(call.arg.audio_data,
                                                 call.arg.sample_rate)]
    /\ UNCHANGED <<pipeVars, thresholds>>

NextUnit ==
    \/ CallEnhance
    \/ CallTemporal
    \/ CallVad
    \/ CallPostprocess
    \/ CallFeedback
    \/ CallNormalize
    \/ CallDetermine
    \/ CallPcm8
    \/ CallDetermineTwice

SpecUnit == InitUnit /\ [][NextUnit]_vars

----------------------------------------------------------------------------
(* Properties                                                               *)

DeterminedCall == call.fn = "determine_speech_presence" /\ call.done

\* the value a report gives a hard gate, a missing value counted as 0
DurationOf(r) == IF "duration" \in DOMAIN r THEN r.duration ELSE 0

RmsOf(r) == IF "rms_energy" \in DOMAIN r THEN r.rms_energy ELSE 0

ActivityOf(r) ==
    IF "temporal_features" \in DOMAIN r
    THEN IF "activity_ratio" \in DOMAIN r.temporal_features
         THEN r.temporal_features.activity_ratio ELSE 0
    ELSE 0

VoiceOf(r) ==
    IF "vad_results" \in DOMAIN r
    THEN IF "voice_ratio" \in DOMAIN r.vad_results
         THEN r.vad_results.voice_ratio ELSE 0
    ELSE 0

HardGateRejects(r) ==
    \/ DurationOf(r) < 200
    \/ RmsOf(r) < 2
    \/ ActivityOf(r) < 15
    \/ VoiceOf(r) < 10

\* C1: for a report without an error tag (and no exception inside the
\* decision), _determine_speech_presence returns false exactly when
\* duration < 0.2 s, or RMS energy < 0.002, or activity ratio < 0.15, or
\* voice_ratio < 0.10, every comparison strict and a missing value counted
\* as 0, and true otherwise.
C1_HardGates ==
    (/\ DeterminedCall
     /\ "error" \notin DOMAIN call.arg.report
     /\ call.arg.fault = "none")
    => (call.res.ret = ~HardGateRejects(call.arg.report))

\* C1 witness: a report whose duration is exactly 0.2 s and whose other
\* gates pass was decided, and accepted.
C1_Witness ==
    /\ DeterminedCall
    /\ "error" \notin DOMAIN call.arg.report
    /\ call.arg.fault = "none"
    /\ DurationOf(call.arg.report) = 200
    /\ call.res.ret = TRUE

\* C2: fail-open.  A report that carries an error tag is decided true whatever
\* its other fields hold, an exception raised inside the decision is decided
\* true as well, and no exception leaves the decision.
C2_FailOpen ==
    DeterminedCall
    => /\ ~call.res.raised
       /\ ("error" \in DOMAIN call.arg.report => call.res.ret = TRUE)
       /\ ("Speech determination failed" \in call.res.log => call.res.ret = TRUE)

\* C2 witness: a report with an error tag whose measured features would be
\* rejected was decided, and the verdict is true.
C2_Witness ==
    /\ DeterminedCall
    /\ "error" \in DOMAIN call.arg.report
    /\ HardGateRejects(call.arg.report)
    /\ call.arg.fault = "none"
    /\ call.res.ret = TRUE

\* the reports that agree with r on everything but the zero-crossing rate and
\* the spectral features
SoftVariants(r) ==
    LET rest == [k \in DOMAIN r \ {"zero_crossing_rate", "spectral_features"} |-> r[k]]
    IN  {Field("zero_crossing_rate", z) @@ Field("spectral_features", sp) @@ rest :
            z \in Opt(ZcrValues),
            sp \in Opt({Field("spectral_centroid", c) : c \in Opt(CentroidValues)})}

\* C3: the verdict does not depend on the zero-crossing rate or on the
\* spectral features: every report that agrees with the decided one on error
\* tag, duration, RMS energy, activity ratio and voice_ratio gets the same
\* verdict.
C3_SoftGatesDoNotDecide ==
    DeterminedCall
    => \A r2 \in SoftVariants(call.arg.report) :
          determine_speech_presence(r2, call.arg.fault).ret = call.res.ret

\* C3 witness: a report whose zero-crossing rate and spectral centroid are
\* both out of the speech range was decided, and accepted.
C3_Witness ==
    /\ DeterminedCall
    /\ call.arg.fault = "none"
    /\ ZcrOutOfRange(call.arg.report)
    /\ CentroidOutOfRange(call.arg.report)
    /\ "error" \notin DOMAIN call.arg.report
    /\ call.res.ret = TRUE


InvokedOps == {calls[i].op : i \in 1..Len(calls)}

SubAnalysisFailed ==
    log \cap {"Spectral feature extraction failed", "Temporal analysis failed",
              "VAD failed"} # {}

AnalysisFaulted == SubAnalysisFailed \/ "Audio analysis failed" \in log

FallbackRan == "Audio preprocessing failed" \in log

EnhancementFailed == "Audio enhancement failed" \in log

\* a report is rejected on a feature that was measured: the duration, the RMS
\* energy, or a ratio that its sub-analysis did compute
RejectedOnMeasuredFeature(r) ==
    /\ "error" \notin DOMAIN r
    /\ \/ r.duration < 200
       \/ r.rms_energy < 2
       \/ /\ "activity_ratio" \in DOMAIN r.temporal_features
          /\ r.temporal_features.activity_ratio < 15
       \/ /\ "voice_ratio" \in DOMAIN r.vad_results
          /\ r.vad_results.voice_ratio < 10

\* C4: a fault inside feature extraction never blocks a clip: when a
\* sub-analysis failed for a clip that loaded, preprocess_audio reports
\* has_speech = false only if a feature that was measured rejects the clip.
C4_FaultNeverBlocks ==
    (/\ pp_ret.returned
     /\ audio.present
     /\ SubAnalysisFailed
     /\ ~pp_ret.has_speech)
    => RejectedOnMeasuredFeature(pp_ret.report)

\* C5: whenever a fault occurred during the extraction, in the top-level
\* computation or in the spectral, temporal or VAD sub-step, the report that
\* _analyze_audio_for_speech returned has its error tag populated.
C5_FaultSetsErrorTag ==
    ("analyze" \in InvokedOps /\ AnalysisFaulted) => "error" \in DOMAIN report

\* C6: a load failure reaches the caller as a failure: the endpoint does not
\* answer a clip that could not be loaded with success = true.
C6_LoadFailurePropagates ==
    (response.sent /\ "load" \in InvokedOps /\ ~audio.present) => ~response.success

\* C7 as claimed: preprocess_audio returns a path different from the input
\* path whenever it reports has_speech = true, and the input path whenever it
\* reports has_speech = false.
C7_Original ==
    pp_ret.returned
    => /\ pp_ret.has_speech => pp_ret.path # UPLOAD_PATH
       /\ ~pp_ret.has_speech => pp_ret.path = UPLOAD_PATH

\* C7 amended: preprocess_audio returns the enhanced audio (a path different
\* from the input path) whenever it reports has_speech = true and the
\* enhancement succeeded, and the input path whenever it reports
\* has_speech = false, the enhancement failed or the exception fallback ran;
\* every return carries the verdict and a report, which is the analysis report
\* or a dict with an error tag.
C7_ReturnedPath ==
    (pc = "et_check" /\ pp_ret.returned)
    => /\ pp_ret.has_speech \in BOOLEAN
       /\ pp_ret.path =
            IF /\ pp_ret.has_speech
               /\ "enhance" \in InvokedOps
               /\ ~EnhancementFailed
               /\ ~FallbackRan
            THEN ENHANCED_PATH
            ELSE UPLOAD_PATH
       /\ pp_ret.path = ENHANCED_PATH
            => ENHANCED_PATH \in DOMAIN fs /\ fs[ENHANCED_PATH] = "enhanced"
       /\ \/ "analyze" \in InvokedOps /\ pp_ret.report = report
          \/ "error" \in DOMAIN pp_ret.report

\* C7 witness: preprocess_audio returned has_speech = true with the enhanced path.
C7_Witness ==
    /\ pc = "et_check"
    /\ pp_ret.returned
    /\ pp_ret.has_speech
    /\ pp_ret.path = ENHANCED_PATH

\* the order of the stages of preprocess_audio
StageOrder == <<"load", "analyze", "decide", "enhance">>

PipelineOps == {StageOrder[i] : i \in 1..Len(StageOrder)}

\* C8: the stages run in the order load, analyze, decide, enhance, each at most
\* once and none before the one it follows, and _enhance_audio_quality is
\* invoked only after a load that produced a buffer and a verdict of true.
C8_StageOrder ==
    /\ \A i \in 1..Len(calls) :
          calls[i].op \in PipelineOps => (i <= Len(StageOrder) /\ calls[i].op = StageOrder[i])
    /\ "enhance" \in InvokedOps => (audio.present /\ has_speech)

\* C8 witness: all four stages have run.
C8_Witness ==
    /\ Len(calls) >= 4
    /\ calls[4].op = "enhance"
    /\ pc = "pp_return"

\* C9: when _enhance_audio_quality failed, the path it returned is the
\* original one and the original file is as it was uploaded; preprocess_audio
\* then returns has_speech = true and the original path, with the analysis
\* report (or, had its own fallback run as well, that fallback's report).
C9_EnhancementFault ==
    EnhancementFailed
    => /\ path = UPLOAD_PATH
       /\ pc \in {"pp_return", "et_check", "await", "respond"}
            => (UPLOAD_PATH \in DOMAIN fs /\ fs[UPLOAD_PATH] = "upload")
       /\ pp_ret.returned
            => /\ pp_ret.has_speech
               /\ pp_ret.path = UPLOAD_PATH
               /\ FallbackRan \/ pp_ret.report = report

\* C9 witness: the enhancement failed and preprocess_audio returned normally.
C9_Witness ==
    /\ EnhancementFailed
    /\ ~FallbackRan
    /\ pp_ret.returned
    /\ pp_ret.has_speech
    /\ pp_ret.report = report

\* C10: the 8-bit conversion maps every sample s in 0..255 to (s - 128) / 128
\* in signed arithmetic, a value within [-1, 1] (numerator within -128..128).
C10_Pcm8Signed ==
    (call.fn = "pcm8_convert" /\ call.done)
    => /\ call.res = call.arg - 128
       /\ call.res >= -128
       /\ call.res <= 128

\* C11: every buffer that reaches _analyze_audio_for_speech has length > 0 and
\* sample rate > 0: a file that decodes to zero samples is a load failure (an
\* absent buffer) and is never analysed, decided on or enhanced.
C11_AnalysedBufferNonEmpty ==
    /\ "analyze" \in InvokedOps => (audio.present /\ audio.n > 0 /\ audio.sr > 0)
    /\ (audio.present /\ audio.n = 0)
          => InvokedOps \cap {"analyze", "decide", "enhance"} = {}


CalledTwice == call.fn = "determine_twice" /\ call.done

AllZero(x) == \A i \in DOMAIN x : x[i] = 0

\* C13: peak normalisation scales a buffer that is not all-zero so that its
\* maximum absolute sample equals 0.95, leaves an all-zero buffer unchanged,
\* and is idempotent: normalising a normalised buffer returns it unchanged.
C13_PeakNormalisation ==
    (call.fn = "normalize" /\ Len(call.res) >= 1)
    => /\ AllZero(call.arg) => call.res[1] = call.arg
       /\ ~AllZero(call.arg)
            => /\ \E i \in DOMAIN call.res[1] : Abs(call.res[1][i]) = PEAK
               /\ \A i \in DOMAIN call.res[1] : Abs(call.res[1][i]) <= PEAK
       /\ call.done => call.res[2] = call.res[1]

\* C13 witness: a buffer whose peak is a negative sample and whose other
\* sample is not a power of two was normalised twice; the first pass changed it.
C13_Witness ==
    /\ call.fn = "normalize"
    /\ call.done
    /\ call.arg[1] < 0
    /\ Abs(call.arg[1]) > Abs(call.arg[2])
    /\ call.arg[2] = 3 * (One \div 8)
    /\ call.res[1] # call.arg


UploadRejected == "Error during enhanced transcription" \in log

TranscriptionFailed == "Enhanced transcription failed" \in log

LoadFailed == "load" \in InvokedOps /\ ~audio.present

\* C14: the transcribe endpoint answers every request that carries an upload
\* with HTTP 200 and a body holding success and transcription; any failure,
\* a rejected upload included, yields success = false with an empty
\* transcription.
C14_FailureIsNotSuccess ==
    response.sent
    => /\ response.status = 200
       /\ (UploadRejected \/ TranscriptionFailed \/ LoadFailed)
            => (~response.success /\ response.transcription = "")

TranscribeOps == {"transcribe_audio_whisper", "transcribe_audio_gemini"}

\* C15: when preprocess_audio reports no speech, as it does for an upload
\* with empty content, enhanced_transcribe_audio calls no transcription
\* collaborator and returns an empty transcription with the analysis report,
\* and the endpoint answers 200 with success = true and transcription ''.
C15_NoSpeechNoTranscription ==
    /\ (pp_ret.returned /\ upload.size = 0 /\ ~FallbackRan) => ~pp_ret.has_speech
    /\ (pp_ret.returned /\ ~pp_ret.has_speech)
          => /\ InvokedOps \cap TranscribeOps = {}
             /\ pc \notin {"await"}
             /\ et_ret.returned => et_ret = Result("", pp_ret.report)
             /\ response.sent
                  => /\ response.status = 200
                     /\ response.success
                     /\ response.transcription = ""

\* C15 witness: the upload with empty content was answered.
C15_Witness ==
    /\ response.sent
    /\ upload.size = 0
    /\ pp_ret.returned
    /\ ~pp_ret.has_speech
    /\ et_ret.returned
    /\ "error" \in DOMAIN et_ret.report


\* C16: the feedback endpoint answers 200 with success = true, the feedback
\* text and the transcription as it was supplied, for every transcription,
\* the empty and the whitespace-only one included, whenever the LLM
\* collaborator succeeds; a failure of the collaborator is answered with
\* HTTP 500 and never with success.
C16_FeedbackEndpoint ==
    (call.fn = "analyze_speech" /\ call.done)
    => IF call.arg.llm.kind = "content"
       THEN /\ call.res.status = 200
            /\ DOMAIN call.res.body = {"success", "transcription", "feedback"}
            /\ call.res.body.success = TRUE
            /\ call.res.body.transcription = call.arg.transcription
            /\ Len(call.res.body.feedback) <= Len(call.arg.llm.content)
       ELSE /\ call.res.status = 500
            /\ "success" \notin DOMAIN call.res.body

\* C16 witness: a whitespace-only transcription was answered with it and
\* with a feedback text.
C16_Witness ==
    /\ call.fn = "analyze_speech"
    /\ call.done
    /\ call.arg.transcription = "   "
    /\ call.res.status = 200
    /\ call.res.body.transcription = "   "
    /\ call.res.body.feedback = "Try: I am happy."


ContextExited == pc = "responded"

DeletionFailed == "Failed to delete temporary file" \in log

\* C17 as claimed: after temporary_file_context has exited, normally or
\* through an exception of validation, of saving or of the body, no temporary
\* file created for the upload remains.
C17_Original == ContextExited => UPLOAD_PATH \notin DOMAIN fs

\* C17 amended: after temporary_file_context has exited, the temporary file
\* of the upload remains only if its deletion failed, which cleanup_file
\* logged as a warning; a validation failure creates no file, and a file that
\* save_temporary_file created and rejected, or that was yielded, is deleted
\* whenever os.unlink succeeds.
C17_NoFileRemains ==
    /\ ~validate_audio_file(upload) => UPLOAD_PATH \notin DOMAIN fs
    /\ ContextExited => (UPLOAD_PATH \in DOMAIN fs => DeletionFailed)

\* C17 witness: the content of an upload was over the limit, the file
\* created for it was removed and the request was answered.
C17_Witness ==
    /\ ContextExited
    /\ validate_audio_file(upload)
    /\ save_rejects(upload)
    /\ UPLOAD_PATH \notin DOMAIN fs
    /\ ~response.success


\* what the request for clip c does when it is the only one
\* C18: concurrent runs for different clips do not interfere: the shared
\* preprocessor is never written, the temporary files of a run in flight are
\* there with its own content and are the files of no other run, and the
\* verdict, the report, the returned path (the upload or an enhanced file)
\* and the answer of every run are those of the run alone.
C18_RunsDoNotInterfere ==
    /\ thresholds = InitThresholds
    /\ \A i \in DOMAIN runs :
         LET r == runs[i]
             alone == r.alone
         IN  /\ r.pc = "read"
                  => (r.temp_path \in DOMAIN fs /\ fs[r.temp_path] = "empty")
             /\ r.pc = "await"
                  => /\ r.temp_path \in DOMAIN fs
                     /\ fs[r.temp_path] = Content("upload", r.clip)
                     /\ r.pp.path # r.temp_path
                          => /\ r.pp.path \in DOMAIN fs
                             /\ fs[r.pp.path] = Content("enhanced", r.clip)
             /\ r.pp.returned
                  => /\ r.pp.has_speech = alone.pp.has_speech
                     /\ r.pp.report = alone.pp.report
                     /\ (r.pp.path = r.temp_path) = (alone.pp.path = "upload")
             /\ r.response.sent => r.response = alone.response
             /\ \A j \in DOMAIN runs :
                  (j # i /\ r.pc \in {"read", "await"} /\ runs[j].pc \in {"read", "await"})
                  => {r.temp_path, r.pp.path} \cap {runs[j].temp_path, runs[j].pp.path}
                       \subseteq {""}

\* C18 witness: a run has answered with its own words and deleted its two
\* files while another run waits for its transcription with an enhanced file
\* of its own, which is still there.
C18_Witness ==
    \E i, j \in DOMAIN runs :
        /\ runs[i].pc = "responded"
        /\ runs[i].response.transcription = "Hello their"
        /\ runs[i].pp.path # runs[i].temp_path
        /\ runs[j].pc = "await"
        /\ runs[j].pp.path # runs[j].temp_path
        /\ fs[runs[j].pp.path] = Content("enhanced", runs[j].clip)

\* the text as C19 describes it: trimmed, the replacements applied in their
\* order, each piece between ". " given a capital first letter, re-joined
SentencesCapitalised(t) ==
    LET sentences == split(apply_replacements(strip(t), 1), ". ")
    IN  join([k \in 1..Len(sentences) |-> capitalize_first_only(sentences[k])], ". ")

\* C19: postprocess_transcription returns the trimmed text with the
\* replacements applied in their listed order and each sentence (split on
\* ". ", re-joined with ". ") capitalised; an empty text and a text whose
\* processing raised are returned unchanged.
C19_PostprocessAsDescribed ==
    (call.fn = "postprocess_transcription" /\ call.done)
        => call.res = IF call.arg.raises \/ call.arg.transcription = ""
                      THEN call.arg.transcription
                      ELSE SentencesCapitalised(call.arg.transcription)

\* the frames of a buffer: 20 ms long, one every 10 ms
FramesOf(x, sr) == frame(x, frame_length(sr), hop_length(sr))

\* frame k is voiced: its energy is above the 35th percentile of the
\* energies of the frames and its zero-crossing rate is strictly between
\* the 20th and the 80th percentile of the rates of the frames
Voiced(x, sr, k) ==
    LET energies == SumSquaresOfRows(FramesOf(x, sr))
        zcrs == ZcrsOfRows(FramesOf(x, sr))
    IN  /\ 100 * energies[k] > Percentile(energies, 35)
        /\ 100 * zcrs[k] > Percentile(zcrs, 20)
        /\ 100 * zcrs[k] < Percentile(zcrs, 80)

\* C20: _voice_activity_detection counts in voice_frames exactly the frames
\* whose energy is strictly above the 35th percentile of the frame energies
\* and whose zero-crossing rate is strictly between the 20th and the 80th
\* percentile of the frame rates; total_frames is the number of frames,
\* 0 <= voice_frames <= total_frames and voice_ratio is their quotient.
C20_VoicedFrames ==
    (call.fn = "voice_activity_detection" /\ call.done /\ call.res # EmptyDict)
        => LET x == call.arg.audio_data
               sr == call.arg.sample_rate
               voiced == {k \in 1..Len(FramesOf(x, sr)) : Voiced(x, sr, k)}
           IN  /\ call.res.total_frames = Len(FramesOf(x, sr))
               /\ call.res.voice_frames = Cardinality(voiced)
               /\ 0 <= call.res.voice_frames
               /\ call.res.voice_frames <= call.res.total_frames
               /\ call.res.voice_ratio
                    = (100 * call.res.voice_frames) \div call.res.total_frames

\* every entry of v is the same
AllSame(v) == \A i, j \in 1..Len(v) : v[i] = v[j]

\* the 25 ms frames of a buffer, one every 10 ms
TemporalFramesOf(x, sr) == frame(x, temporal_frame_length(sr), hop_length(sr))

\* a report that passes every gate before the activity gate and the gate
\* after it, with the temporal features given and no error tag
LoudReport(temporal_features) ==
    [duration |-> MIN_DURATION, rms_energy |-> 1000 * MIN_RMS_THRESHOLD,
     temporal_features |-> temporal_features, vad_results |-> [voice_ratio |-> 100]]

\* C21: the frame of least energy is never active (active_frames <
\* total_frames, activity_ratio < 1); a clip whose frames all have the same
\* energy has activity ratio 0 and, with no error tag, is rejected however
\* loud it is; a clip whose detection frames all have the same energy or the
\* same zero-crossing rate has voice_ratio 0.
C21_LeastFrameNeverActive ==
    /\ (call.fn = "analyze_temporal_characteristics" /\ call.done
            /\ call.res # EmptyDict)
        => /\ call.res.active_frames < call.res.total_frames
           /\ call.res.activity_ratio < 100
           /\ AllSame(SumSquaresOfRows(TemporalFramesOf(call.arg.audio_data,
                                                        call.arg.sample_rate)))
                => /\ call.res.activity_ratio = 0
                   /\ ~determine_speech_presence(LoudReport(call.res), "none").ret
    /\ (call.fn = "voice_activity_detection" /\ call.done /\ call.res # EmptyDict)
        => LET frames == FramesOf(call.arg.audio_data, call.arg.sample_rate)
           IN  (AllSame(SumSquaresOfRows(frames)) \/ AllSame(ZcrsOfRows(frames)))
                   => call.res.voice_ratio = 0

Enhanced == call.fn = "enhance_audio_quality" /\ call.done /\ ~call.res.raised

\* C22: _enhance_audio_quality filters iff sample_rate > 160; for
\* sample_rate <= 160 the file written holds the peak-normalised samples,
\* each as a 16-bit integer, in one channel at the sample rate of the input.
C22_FilterAboveNyquistOnly ==
    Enhanced
        => LET x == call.arg.audio_data
               sr == call.arg.sample_rate
           IN  /\ call.res.sosfilt <=> (sr > 160)
               /\ sr <= 160
                    => /\ call.res.frames = [k \in 1..Len(x) |-> to_int16(normalize(x)[k])]
                       /\ call.res.nchannels = 1
                       /\ call.res.sampwidth = 2
                       /\ call.res.framerate = sr

\* C22 witness: a buffer with a sample at 160 Hz, where the cutoff is the
\* Nyquist frequency, was written without filtering.
C22_Witness ==
    /\ Enhanced
    /\ call.arg.sample_rate = 160
    /\ ~call.res.sosfilt
    /\ \E k \in DOMAIN call.res.frames : call.res.frames[k] # 0

\* C23: when enhanced_transcribe_audio has returned, on success or after a
\* failure, no enhanced temporary file remains, also none created by an
\* enhancement that failed; and the pipeline has not deleted the file it
\* was given.
C23_EnhancedFileDeleted ==
    (et_ret.returned /\ pc = "respond")
        => /\ ENHANCED_PATH \notin DOMAIN fs
           /\ UPLOAD_PATH \in DOMAIN fs

\* the sub-dict of the report under key k is there and empty: the
\* sub-analysis failed
SubDictEmpty(k) == k \in DOMAIN report /\ report[k] = EmptyDict

\* the transcription returned and the enhanced file it was given is still
\* there: its deletion failed
EnhancedDeletionFailed ==
    /\ pc = "respond"
    /\ pp_ret.returned /\ pp_ret.has_speech /\ pp_ret.path = ENHANCED_PATH
    /\ et_ret.report # transcribe_except.report
    /\ ENHANCED_PATH \in DOMAIN fs

\* C24: every fault that is recovered has its log record when the pipeline
\* goes on: the primary decoder failing before the PCM fallback, a failed
\* spectral, temporal or VAD sub-analysis, a fault of the decision, a fault
\* of the enhancement, and a failed deletion of the enhanced file.
C24_RecoveredFaultsAreLogged ==
    /\ (pc = "analyze" /\ upload.kind \in {"pcm8", "pcm16"}) => log # {}
    /\ pc = "decide"
         => /\ SubDictEmpty("spectral_features")
                 => "Spectral feature extraction failed" \in log
            /\ SubDictEmpty("temporal_features")
                 => "Temporal analysis failed" \in log
            /\ SubDictEmpty("vad_results") => "VAD failed" \in log
            /\ \A f \in DecisionFaults :
                 determine_try(report, f, 1, {}).raised
                     => "Speech determination failed"
                            \in determine_speech_presence(report, f).log
    /\ (pc = "pp_return" /\ has_speech /\ path = UPLOAD_PATH)
         => "Audio enhancement failed" \in log
    /\ EnhancedDeletionFailed => "Failed to delete temporary file" \in log

\* the uploads that neither decoder reads, or whose samples are neither 1
\* nor 2 bytes wide
Unloadable == upload.kind \in {"corrupt", "pcm24"}

\* C25: when _load_audio_file fails it returns the absent buffer (None, 0),
\* and preprocess_audio then analyses, decides and enhances nothing, loads
\* no second time and returns the path it was given.
C25_LoadFailureHalts ==
    /\ (Unloadable /\ "load" \in InvokedOps) => audio = NoAudio
    /\ LoadFailed
         => /\ calls = <<Invoked("load", UPLOAD_PATH)>>
            /\ pp_ret.returned
            /\ pp_ret.path = UPLOAD_PATH

\* C25 witness: the fallback met samples of 3 bytes, and the request was
\* answered after the one load.
C25_Witness ==
    /\ upload.kind = "pcm24"
    /\ LoadFailed
    /\ pc = "responded"

\* the places in calls of the calls to a transcription operation
TranscribeCalls == {i \in 1..Len(calls) : calls[i].op \in TranscribeOps}

\* C26: when speech is detected and the model is 'whisper' or 'gemini',
\* enhanced_transcribe_audio calls the matching transcription operation of
\* speech_service exactly once, with the path that preprocess_audio
\* returned, and returns the post-processed text of the collaborator with
\* the analysis report.
C26_MatchingOperationCalledOnce ==
    (pc = "respond" /\ TranscribeCalls # {})
        => /\ Cardinality(TranscribeCalls) = 1
           /\ \A i \in TranscribeCalls :
                 /\ calls[i].op \in SpeechServiceOps
                 /\ calls[i].arg = pp_ret.path
           /\ et_ret.report = pp_ret.report
           /\ et_ret.transcription
                \in {postprocess_transcription(t) : t \in CollaboratorOutcomes \ {"raise"}}

\* w occurs in s
Contains(s, w) == \E i \in 1..(Len(s) - Len(w) + 1) : SubSeq(s, i, i + Len(w) - 1) = w

\* C27: whenever the trimmed transcription contains a listed misrecognition,
\* the text returned by postprocess_transcription contains its correction,
\* spelled and cased as listed, wherever in a sentence it occurs.
C27_CorrectionsSurvive ==
    (call.fn = "postprocess_transcription" /\ call.done /\ ~call.arg.raises)
        => \A k \in 1..Len(Replacements) :
              Contains(strip(call.arg.transcription), Replacements[k][1])
                  => Contains(call.res, Replacements[k][2])

====
